---- MODULE Spec2Model ----
(***************************************************************************)
(* Model of the flood damage assessment script src/app.py.                 *)
(*                                                                         *)
(* The script is one straight-line pipeline: it builds the change mask     *)
(* from the pre and post Sentinel-1 images, calls mark_flooded_assets on   *)
(* the building, road and hospital collections, merges the three tables,   *)
(* computes the flooded area and writes the summary panel.                 *)
(*                                                                         *)
(* Rasters are functions from the grid cells that hold data to a value.    *)
(* A cell outside the domain is masked.  Backscatter is in tenths of a     *)
(* decibel, so the script's threshold -1.5 is -15.  An asset geometry is   *)
(* the set of grid cells under its footprint (possibly none).  An absent   *)
(* Earth Engine value (null / None) is the empty sequence, a present value *)
(* v is <<v>>.                                                             *)
(***************************************************************************)
EXTENDS Integers, Sequences, FiniteSets

\* ------------------------------------------------------------- bounds
NumCells == 2
MaxAssets == 2

\* ------------------------------------------------- program constants
Threshold == -15
Scale == 100
SqmPerSqkm == 1000000
building_cost == 500000
road_cost == 1000000
hospital_cost == 5000000

Cells == 1..NumCells

None == << >>
Some(v) == <<v>>

\* Observed backscatter values (tenths of dB).
PreVals == {-100, -95}
PostVals == {-90, -85, -80}
Thresholds == {-20, -15, -10, -5}
\* The pipeline runs are drawn from scenario A (post -8.0) and B (post -9.0).
RunPreVals == {-100}
RunPostVals == {-90, -80}

Names == <<"Building", "Road", "Hospital">>
Costs == <<building_cost, road_cost, hospital_cost>>

\* Footprints: contiguous runs of cells, or no cell of the grid at all.
Geoms == {{}} \cup {lo..hi : lo \in Cells, hi \in Cells}
Collections == UNION {[1..n -> Geoms] : n \in 0..MaxAssets}

VARIABLES
  pc,           \* position in the script
  k,            \* which of the three mark_flooded_assets calls is next / running
  pre_img, post_img,   \* the two observations
  buffer,       \* AOI radius in cells
  flood_mask,   \* the change mask
  fc, count, rows, ran, failedGeoms,     \* locals of the running call
  ret,          \* per call: the returned count and table
  all_df, total_loss,
  area_raw, flood_area,
  emitted,      \* what the presentation layer has received, in order
  exc,          \* the exception that ended the run, "" if none
  prev_area,    \* the area the previous run of the script reported
  t1, t2, mask1, mask2  \* change detection at two thresholds

vars == <<pc, k, pre_img, post_img, buffer, flood_mask, fc, count, rows, ran,
          failedGeoms, ret, all_df, total_loss, area_raw, flood_area, emitted,
          exc, prev_area, t1, t2, mask1, mask2>>

\* ------------------------------------------------------ raster algebra
RECURSIVE SumOver(_, _)
SumOver(img, S) ==
  IF S = {} THEN 0
  ELSE LET c == CHOOSE x \in S : TRUE IN img[c] + SumOver(img, S \ {c})

MaxOf(S) == CHOOSE x \in S : \A y \in S : y <= x

Subtract(a, b) == [c \in (DOMAIN a) \cap (DOMAIN b) |-> a[c] - b[c]]

\* Mutant: the comparison the other way round (gt for lt).
LtFlipped(img, t) == [c \in DOMAIN img |-> IF img[c] > t THEN 1 ELSE 0]

Lt(img, t) == [c \in DOMAIN img |-> IF img[c] < t THEN 1 ELSE 0]

\* Mutant: selfMask left out, the zeros stay defined.
SelfMaskKeepsZero(img) == img

SelfMask(img) == [c \in {d \in DOMAIN img : img[d] # 0} |-> img[c]]

Multiply(a, b) == [c \in (DOMAIN a) \cap (DOMAIN b) |-> a[c] * b[c]]

PixelArea == [c \in Cells |-> Scale * Scale]

DetectChange(pre, post, t) == SelfMask(Lt(Subtract(pre, post), t))

aoi == 1..buffer

\* reduceRegion with Reducer.max(): null when no unmasked cell lies under
\* the geometry.
ReduceRegionMax(img, geom) ==
  LET S == (DOMAIN img) \cap geom
  IN IF S = {} THEN None ELSE Some(MaxOf({img[c] : c \in S}))

\* reduceRegion with Reducer.sum() over the unmasked cells under the geometry.
ReduceRegionSum(img, geom) == SumOver(img, (DOMAIN img) \cap geom)

\* ------------------------------------------------- mark_flooded_assets
\* fc.map(lambda f: f.set('flooded', reduceRegion(max).get('flooded'))):
\* the features in the collection's order, each with its reduction.
MapFlooded(c, mask) ==
  [i \in 1..Len(c) |->
     [id |-> i, geom |-> c[i], flooded |-> ReduceRegionMax(mask, c[i])]]

\* Mutant: the filter keeps every feature whose 'flooded' is not 0, so a
\* feature with no reduction value passes.
IsFloodedTruthy(f) == f.flooded # Some(0)

\* ee.Filter.eq('flooded', 1)
IsFlooded(f) == f.flooded = Some(1)

FilterFlooded(fs) == SelectSeq(fs, IsFlooded)

\* flooded_only.map(... .set("loss_inr", unit_cost)).getInfo()['features'].
\* The centroid coordinates are not modelled; id is the feature's position
\* in the input collection.
Coords(fs, unit_cost) ==
  [i \in 1..Len(fs) |-> [id |-> fs[i].id, loss_inr |-> unit_cost]]

\* for f in coords['features']: rows.append({...})
RowsOf(coords, name) ==
  [i \in 1..Len(coords) |->
     [Type |-> name, Estimated_Loss_INR |-> coords[i].loss_inr,
      src |-> coords[i].id]]

\* Mutant: the function without its empty-collection return.
mark_without_short_circuit(c, mask, name, unit_cost, bad) ==
  IF bad # {}
  THEN [raised |-> TRUE, count |-> 0, df |-> << >>,
        ran |-> {"size", "map", "reduceRegion"}]
  ELSE [raised |-> FALSE,
        count |-> Len(FilterFlooded(MapFlooded(c, mask))),
        df |-> RowsOf(Coords(FilterFlooded(MapFlooded(c, mask)), unit_cost), name),
        ran |-> {"size", "map", "reduceRegion", "filter", "centroid"}]

\* The whole function.  bad is the set of features whose reduceRegion does
\* not complete (time-out, memory or pixel limit on the server): the mapped
\* collection then has no value and the getInfo of line 91 raises.
\* ran is the set of server-side steps the call evaluated.
mark_flooded_assets(c, mask, name, unit_cost, bad) ==
  IF Len(c) = 0
  THEN [raised |-> FALSE, count |-> 0, df |-> << >>, ran |-> {"size"}]
  ELSE IF bad # {}
  THEN [raised |-> TRUE, count |-> 0, df |-> << >>,
        ran |-> {"size", "map", "reduceRegion"}]
  ELSE LET flooded == MapFlooded(c, mask)
           flooded_only == FilterFlooded(flooded)
           coords == Coords(FilterFlooded(MapFlooded(c, mask)), unit_cost)
       IN [raised |-> FALSE,
           count |-> Len(flooded_only),
           df |-> RowsOf(coords, name),
           ran |-> {"size", "map", "reduceRegion", "filter", "centroid"}]

\* --------------------------------------------------------- the merge
\* Mutant: the hospital table left out of the merge.
ConcatNoHospitals(b, r, h) == b \o r

\* Mutant: the road table merged first.
ConcatRoadsFirst(b, r, h) == r \o b \o h

\* pd.concat([b_df, r_df, h_df], ignore_index=True)
Concat(b, r, h) == b \o r \o h

RECURSIVE SumLoss(_)
SumLoss(df) ==
  IF df = << >> THEN 0
  ELSE Head(df).Estimated_Loss_INR + SumLoss(Tail(df))

\* all_df["Estimated_Loss_INR"].sum() if not all_df.empty else 0
TotalLoss(df) == IF df # << >> THEN SumLoss(df) ELSE 0

\* ------------------------------------------------------ flooded area
\* Mutant: the area reduced over the flagged assets in place of the AOI
\* (no flagged asset, no region).
AreaRegionOfAssets == IF all_df # << >> THEN aoi ELSE {}

\* geometry=aoi of the area reduction
AreaRegion == aoi

\* The values the sum reduction can hand back.  With no unmasked cell in
\* the region the service's answer is not fixed by this program: the sum
\* of nothing (0) or no value at all (null).
AreaOutcomes(mask, region) ==
  LET img == Multiply(mask, PixelArea)
  IN IF (DOMAIN img) \cap region = {}
     THEN {None, Some(0)}
     ELSE {Some(ReduceRegionSum(img, region))}

\* `flood_area is not None` tests the ee.ComputedObject handle that
\* .get('flooded') returns, which is never Python's None.
HandleIsNotNone == TRUE

\* flood_area.getInfo() / 1e6, as a fraction <<numerator, denominator>>
ToSqKm(v) == <<v, SqmPerSqkm>>

\* ------------------------------------------------------------ states
NoRet == [count |-> 0, df |-> << >>, empty_in |-> FALSE]

InitCommon ==
  /\ pc = "start"
  /\ k = 1
  /\ flood_mask = << >>
  /\ fc = << >> /\ count = 0 /\ rows = << >> /\ ran = {} /\ failedGeoms = {}
  /\ ret = [i \in 1..3 |-> NoRet]
  /\ all_df = << >> /\ total_loss = 0
  /\ area_raw = None /\ flood_area = None
  /\ emitted = << >>
  /\ exc = ""
  /\ prev_area = None

Init ==
  /\ InitCommon
  /\ pre_img \in [Cells -> RunPreVals]
  /\ post_img \in [Cells -> RunPostVals]
  /\ buffer \in Cells
  /\ t1 = Threshold /\ t2 = Threshold /\ mask1 = << >> /\ mask2 = << >>

maskVars == <<t1, t2, mask1, mask2>>
inputVars == <<pre_img, post_img, buffer>>
localVars == <<fc, count, rows, ran, failedGeoms>>
reportVars == <<all_df, total_loss, area_raw, flood_area, emitted>>

\* lines 53-58
BuildMask ==
  /\ pc = "start"
  /\ flood_mask' = DetectChange(pre_img, post_img, Threshold)
  /\ pc' = "call"
  /\ UNCHANGED <<k, inputVars, localVars, ret, reportVars, exc, prev_area, maskVars>>

\* lines 116-118: one call of mark_flooded_assets, on the collection the
\* catalog holds for the AOI, every reduction completing.
Call ==
  /\ pc = "call"
  /\ \E c \in Collections :
       LET r == mark_flooded_assets(c, flood_mask, Names[k], Costs[k], {})
       IN /\ fc' = c
          /\ count' = r.count
          /\ rows' = r.df
          /\ ran' = r.ran
  /\ failedGeoms' = {}
  /\ pc' = "return"
  /\ UNCHANGED <<k, inputVars, flood_mask, ret, reportVars, exc, prev_area, maskVars>>

\* A collection of n geometries spanning the grid.  Whether a reduction
\* completes is the server's matter, not the footprint's, so the failing
\* call is drawn by the collection's size and the feature that fails.
Spanning(n) == [j \in 1..n |-> Cells]

\* lines 116-118: a call in which the reduction of one geometry does not
\* complete.  The exception unwinds the call: of its locals only the record
\* of which reduction failed is kept.
CallReduceFails ==
  /\ pc = "call"
  /\ \E n \in 1..MaxAssets : \E i \in 1..n :
       LET r == mark_flooded_assets(Spanning(n), flood_mask, Names[k], Costs[k], {i})
       IN /\ failedGeoms' = {i}
          /\ count' = r.count
          /\ rows' = r.df
          /\ ran' = r.ran
          /\ pc' = IF r.raised THEN "failed" ELSE "return"
          /\ exc' = IF r.raised THEN "EEException" ELSE exc
          /\ fc' = IF r.raised THEN << >> ELSE Spanning(n)
  /\ UNCHANGED <<k, inputVars, flood_mask, ret, reportVars, prev_area, maskVars>>

\* the assignment of the call's results at lines 116-118; the locals die.
Return ==
  /\ pc = "return"
  /\ ret' = [ret EXCEPT ![k] =
               [count |-> count, df |-> rows, empty_in |-> (Len(fc) = 0)]]
  /\ fc' = << >> /\ count' = 0 /\ rows' = << >> /\ ran' = {} /\ failedGeoms' = {}
  /\ IF k < 3 THEN k' = k + 1 /\ pc' = "call"
              ELSE k' = k /\ pc' = "merge"
  /\ UNCHANGED <<inputVars, flood_mask, reportVars, exc, prev_area, maskVars>>

b_count == ret[1].count
r_count == ret[2].count
h_count == ret[3].count
b_df == ret[1].df
r_df == ret[2].df
h_df == ret[3].df

\* lines 121-122
Merge ==
  /\ pc = "merge"
  /\ all_df' = Concat(b_df, r_df, h_df)
  /\ total_loss' = TotalLoss(all_df')
  /\ pc' = "summary"
  /\ UNCHANGED <<k, inputVars, flood_mask, localVars, ret, area_raw, flood_area,
                 emitted, exc, prev_area, maskVars>>

\* line 127
Subheader ==
  /\ pc = "summary"
  /\ emitted' = Append(emitted, "summary_heading")
  /\ pc' = "area"
  /\ UNCHANGED <<k, inputVars, flood_mask, localVars, ret, all_df, total_loss,
                 area_raw, flood_area, exc, prev_area, maskVars>>

\* lines 130-141, the reduction answering
ComputeArea ==
  /\ pc = "area"
  /\ \E raw \in AreaOutcomes(flood_mask, AreaRegion) :
       /\ area_raw' = raw
       /\ IF HandleIsNotNone
          THEN IF raw = None
               THEN /\ pc' = "failed" /\ exc' = "TypeError"
                    /\ UNCHANGED flood_area
               ELSE /\ flood_area' = ToSqKm(raw[1])
                    /\ pc' = "emit" /\ UNCHANGED exc
          ELSE /\ flood_area' = <<0, 1>>
               /\ pc' = "emit" /\ UNCHANGED exc
  /\ UNCHANGED <<k, inputVars, flood_mask, localVars, ret, all_df, total_loss,
                 emitted, prev_area, maskVars>>

\* lines 130-139, the reduction failing on the server
ComputeAreaFails ==
  /\ pc = "area"
  /\ pc' = "failed" /\ exc' = "EEException"
  /\ UNCHANGED <<k, inputVars, flood_mask, localVars, ret, reportVars,
                 prev_area, maskVars>>

ReportParts == <<"flooded_area", "b_count", "r_count", "h_count", "total_loss",
                 "detail_heading", "detail_table">>

\* lines 143-152
EmitReport ==
  /\ pc = "emit"
  /\ emitted' = emitted \o ReportParts
  /\ pc' = "done"
  /\ UNCHANGED <<k, inputVars, flood_mask, localVars, ret, all_df, total_loss,
                 area_raw, flood_area, exc, prev_area, maskVars>>

Next ==
  \/ BuildMask
  \/ Call
  \/ CallReduceFails
  \/ Return
  \/ Merge
  \/ Subheader
  \/ ComputeArea
  \/ ComputeAreaFails
  \/ EmitReport

Spec == Init /\ [][Next]_vars

\* ------------------------------------------------------------ reruns
\* Streamlit runs the script again, top to bottom, on every interaction
\* with a widget (the download button of line 157, the map of line 171).
\* The sidebar inputs keep their values; the catalogs are queried afresh.
\* prev_area remembers what the run before reported: its flooded area and
\* whether its detail table had rows.
Rerun ==
  /\ pc \in {"done", "failed"}
  /\ prev_area' = IF pc = "done" THEN Some(<<flood_area, all_df # << >>>>)
                                 ELSE prev_area
  /\ pc' = "start" /\ k' = 1 /\ flood_mask' = << >>
  /\ fc' = << >> /\ count' = 0 /\ rows' = << >> /\ ran' = {} /\ failedGeoms' = {}
  /\ ret' = [i \in 1..3 |-> NoRet]
  /\ all_df' = << >> /\ total_loss' = 0
  /\ area_raw' = None /\ flood_area' = None
  /\ emitted' = << >>
  /\ exc' = ""
  /\ UNCHANGED <<inputVars, maskVars>>

NextRerun ==
  \/ BuildMask
  \/ Call
  \/ CallReduceFails
  \/ Return
  \/ Merge
  \/ Subheader
  \/ ComputeArea
  \/ ComputeAreaFails
  \/ EmitReport
  \/ Rerun

SpecRerun == Init /\ [][NextRerun]_vars

\* ------------------------------------------- change detection alone
\* The change detector of lines 57-58 applied to observations with masked
\* cells, at two thresholds.
Images(vals) == UNION {[S -> vals] : S \in SUBSET Cells}

InitMask ==
  /\ InitCommon
  /\ pre_img \in Images(PreVals)
  /\ post_img \in Images(PostVals)
  /\ buffer = 1
  /\ t1 \in Thresholds /\ t2 \in Thresholds
  /\ mask1 = << >> /\ mask2 = << >>

Detect ==
  /\ pc = "start"
  /\ mask1' = DetectChange(pre_img, post_img, t1)
  /\ mask2' = DetectChange(pre_img, post_img, t2)
  /\ pc' = "detected"
  /\ UNCHANGED <<k, inputVars, flood_mask, localVars, ret, reportVars, exc,
                 prev_area, t1, t2>>

NextMask == Detect

SpecMask == InitMask /\ [][NextMask]_vars


\* ================================================================ claims
Merged == pc \in {"summary", "area", "emit", "done"}

RowsOfType(df, name) == {j \in DOMAIN df : df[j].Type = name}

RECURSIVE ColumnSum(_, _)
ColumnSum(df, n) ==
  IF n = 0 THEN 0 ELSE df[n].Estimated_Loss_INR + ColumnSum(df, n - 1)

TypeIndex(name) == CHOOSE i \in 1..3 : Names[i] = name

\* C1: once the tables are merged, each type's count equals the number of
\* detail rows of that type, the three counts add up to the number of rows
\* of all_df, and total_loss is the sum of its Estimated_Loss_INR column.
C1_CountsRowsAndLoss ==
  Merged =>
    /\ \A i \in 1..3 : ret[i].count = Cardinality(RowsOfType(all_df, Names[i]))
    /\ b_count + r_count + h_count = Len(all_df)
    /\ total_loss = ColumnSum(all_df, Len(all_df))

C1_Witness ==
  /\ pc = "done"
  /\ b_count = 2 /\ r_count = 1 /\ h_count = 1
  /\ total_loss = 2 * building_cost + road_cost + hospital_cost

\* C2: when a call on a non-empty collection returns, a feature has a
\* detail row (and is counted) exactly when the MAX reduction of the change
\* mask over its footprint is 1; a feature with no defined mask cell under
\* it has none, and a call in which a reduction did not complete counts
\* nothing.
C2_FlaggedIffMaxIsOne ==
  /\ (pc = "return" /\ fc # << >>) =>
       /\ \A i \in 1..Len(fc) :
            /\ (\E j \in DOMAIN rows : rows[j].src = i)
                 <=> (ReduceRegionMax(flood_mask, fc[i]) = Some(1))
            /\ (fc[i] \cap DOMAIN flood_mask = {})
                 => ~(\E j \in DOMAIN rows : rows[j].src = i)
       /\ count = Cardinality({i \in 1..Len(fc) :
                                 ReduceRegionMax(flood_mask, fc[i]) = Some(1)})
  /\ failedGeoms # {} => (count = 0 /\ rows = << >>)

C2_Witness ==
  /\ pc = "return" /\ Len(fc) = 2
  /\ ReduceRegionMax(flood_mask, fc[1]) = None
  /\ ReduceRegionMax(flood_mask, fc[2]) = Some(1)
  /\ count = 1

\* C3: after change detection a cell of the mask holds 1 exactly when both
\* observations have a value there and pre - post is below the threshold;
\* every other cell is undefined, and no defined cell holds 0.
C3_MaskIsOneIffBelow ==
  pc = "detected" =>
    \A c \in Cells :
      /\ (c \in DOMAIN mask1)
           <=> (/\ c \in DOMAIN pre_img /\ c \in DOMAIN post_img
                /\ pre_img[c] - post_img[c] < t1)
      /\ (c \in DOMAIN mask1) => (mask1[c] = 1)

\* Scenario A (pre -10.0, post -8.0) flagged and scenario B (post -9.0)
\* undefined, at the threshold -1.5.
C3_Witness ==
  /\ pc = "detected" /\ t1 = Threshold
  /\ \E a \in Cells : \E b \in Cells :
       /\ a \in DOMAIN pre_img /\ a \in DOMAIN post_img
       /\ pre_img[a] = -100 /\ post_img[a] = -80 /\ a \in DOMAIN mask1
       /\ b \in DOMAIN pre_img /\ b \in DOMAIN post_img
       /\ pre_img[b] = -100 /\ post_img[b] = -90 /\ b \notin DOMAIN mask1

\* C4 (as claimed): a reduction of one geometry that does not complete
\* leaves the run going; it does not end the run.
C4_FailureContained ==
  (Cardinality(failedGeoms) = 1) => (pc # "failed")

\* C5 (as claimed): when the sum reduction hands back no value, the flooded
\* area is 0 and the run goes on to the report without an exception.
C5_NoneGivesZero ==
  (pc \in {"emit", "done", "failed"} /\ area_raw = None /\ exc # "EEException")
    => (pc # "failed" /\ flood_area # None /\ flood_area[1] = 0)

\* C6 (as claimed): a run that fails has emitted no part of the report.
C6_AllOrNothing ==
  pc = "failed" => emitted = << >>

\* C7: a call on an empty collection returns count 0 and an empty table
\* having run neither the map, the reduction, the filter nor the centroid
\* step; the merged table then has no row of that type and the total loss
\* is the loss of the other types' rows.
C7_EmptyShortCircuits ==
  /\ (pc = "return" /\ fc = << >>) =>
       /\ count = 0 /\ rows = << >>
       /\ ran \cap {"map", "reduceRegion", "filter", "centroid"} = {}
  /\ Merged =>
       \A i \in 1..3 : ret[i].empty_in =>
         /\ RowsOfType(all_df, Names[i]) = {}
         /\ ret[i].count = 0
         /\ total_loss =
              ColumnSum(SelectSeq(all_df, LAMBDA r : r.Type # Names[i]),
                        Len(all_df))
         /\ \A j \in DOMAIN all_df : all_df[j].Type # Names[i]

\* Scenario D: no hospital in the AOI, buildings and roads flagged.
C7_Witness ==
  /\ pc = "done"
  /\ ret[3].empty_in /\ ~ret[1].empty_in /\ ~ret[2].empty_in
  /\ b_count > 0 /\ r_count > 0
  /\ total_loss = b_count * building_cost + r_count * road_cost

\* C8: the merged table lists Building rows, then Road rows, then Hospital
\* rows, and within a type the rows follow the input collection's order
\* (their positions in the input strictly increase).
C8_OrderPreserved ==
  /\ Merged =>
       \A i \in DOMAIN all_df : \A j \in DOMAIN all_df :
         i < j =>
           /\ TypeIndex(all_df[i].Type) <= TypeIndex(all_df[j].Type)
           /\ (all_df[i].Type = all_df[j].Type) => (all_df[i].src < all_df[j].src)
  /\ pc = "return" =>
       /\ \A j \in DOMAIN rows : rows[j].src \in 1..Len(fc)
       /\ \A i \in DOMAIN rows : \A j \in DOMAIN rows :
            i < j => rows[i].src < rows[j].src

C8_Witness ==
  /\ pc = "done" /\ Len(all_df) = 5
  /\ b_count = 2 /\ r_count = 2 /\ h_count = 1

\* C9: a run reports the same flooded area as the run before it on the same
\* observations and AOI, whatever the asset collections of the two runs.
C9_AreaIndependentOfAssets ==
  (pc = "done" /\ prev_area # None) => flood_area = prev_area[1][1]

\* Two runs, the first with flagged assets and the second with none.
C9_Witness ==
  /\ pc = "done" /\ prev_area # None
  /\ prev_area[1][2] /\ all_df = << >>
  /\ flood_area[1] > 0

\* C10: for two thresholds t1 <= t2 the cells flagged at t1 are among the
\* cells flagged at t2.
C10_ThresholdMonotone ==
  (pc = "detected" /\ t1 <= t2) =>
    /\ DOMAIN mask1 \subseteq DOMAIN mask2
    /\ Cardinality(DOMAIN mask1) <= Cardinality(DOMAIN mask2)

C10_Witness ==
  /\ pc = "detected" /\ t1 < t2
  /\ DOMAIN mask1 # {} /\ DOMAIN mask1 # DOMAIN mask2

====
